---- MODULE Spec2Model ----
(***************************************************************************)
(* A model of erick-dsnk/rust-browser-engine: the stylesheet parser        *)
(* (src/src/css_parser.rs) and the box layout engine (src/src/layout.rs).  *)
(*                                                                         *)
(* Text is a string, read with Len, SubSeq and \o.  Option<T> is a         *)
(* sequence of length at most one: None is the empty sequence, Some(x) the *)
(* sequence holding x.  f32 lengths are integers: every number of the      *)
(* model is a small integer and every division the layout performs on them *)
(* is exact, as it is in f32.                                              *)
(***************************************************************************)
EXTENDS Integers, Sequences, FiniteSets, TLC

VARIABLES
    \* ---- CssParser (css_parser.rs) ----
    input,          \* the text handed to CssParser::new
    pos,            \* index of the next character of self.chars
    sheet,          \* parse_stylesheet: sheet.rules
    selectors,      \* parse_selectors: selectors
    simple_sel,     \* parse_selector: simple_sel
    multiple_ids,   \* parse_selector: multiple_ids
    declarations,   \* parse_declarations: declarations
    pc,             \* where the parser stands
    mark_rule,      \* pos when the current iteration of the rule loop began
    mark_sel,       \* pos when the current iteration of the selectors loop began
    \* ---- layout (layout.rs) ----
    styled,         \* the styled tree handed to layout_tree
    containing,     \* the containing_block handed to layout_tree
    root_box,       \* layout_tree: root_box
    lpc             \* where layout_tree stands

parserVars == <<input, pos, sheet, selectors, simple_sel, multiple_ids,
                declarations, pc, mark_rule, mark_sel>>
layoutVars == <<styled, containing, root_box, lpc>>
vars == <<input, pos, sheet, selectors, simple_sel, multiple_ids,
          declarations, pc, mark_rule, mark_sel,
          styled, containing, root_box, lpc>>

\* Longest input text enumerated exhaustively.
MaxLen == 4

\* Largest number of nodes of an enumerated styled tree.
MaxNodes == 4

None == <<>>
Some(x) == <<x>>

(***************************************************************************)
(* Characters                                                              *)
(***************************************************************************)
LowerCase == "abcdefghijklmnopqrstuvwxyz"
UpperCase == "ABCDEFGHIJKLMNOPQRSTUVWXYZ"
Digits == "0123456789"

CharsOf(s) == {SubSeq(s, i, i) : i \in 1..Len(s)}

Letters == CharsOf(LowerCase) \cup CharsOf(UpperCase)
DigitChars == CharsOf(Digits)
Whitespace == {" ", "\n", "\t"}
AllChars == Letters \cup DigitChars \cup Whitespace
            \cup {"#", ".", ",", "{", "}", ":", ";", "-", "_", "%"}

\* char::to_lowercase on the characters of the model
ToLowerChar(c) ==
    IF c \in CharsOf(UpperCase)
    THEN LET i == CHOOSE j \in 1..Len(UpperCase) : SubSeq(UpperCase, j, j) = c
         IN  SubSeq(LowerCase, i, i)
    ELSE c

\* str::to_lowercase
RECURSIVE ToLowercase(_)
ToLowercase(s) ==
    IF s = "" THEN ""
    ELSE ToLowerChar(SubSeq(s, 1, 1)) \o ToLowercase(SubSeq(s, 2, Len(s)))

\* the value of a decimal digit
DigitVal(c) == (CHOOSE j \in 1..Len(Digits) : SubSeq(Digits, j, j) = c) - 1

(***************************************************************************)
(* css.rs: the value model                                                 *)
(***************************************************************************)
Color(r, g, b, a) == [kind |-> "Color", r |-> r, g |-> g, b |-> b, a |-> a]
Length(n, unit) == [kind |-> "Length", n |-> n, unit |-> unit]
Other(s) == [kind |-> "Other", s |-> s]

DefaultColor == Color(1, 1, 1, 1)

Declaration(property, value) == [property |-> property, value |-> value]
DefaultSimpleSelector == [tag_name |-> None, id |-> None, classes |-> <<>>]
DefaultSelector == [simple |-> <<>>, combinators |-> <<>>]
Rule(sels, decls) == [selectors |-> sels, declarations |-> decls]

(***************************************************************************)
(* css_parser.rs: the character stream                                     *)
(***************************************************************************)
EOF == "EOF"

\* self.chars.peek()
Peek(p) == IF p <= Len(input) THEN SubSeq(input, p, p) ELSE EOF

\* self.chars.next(): nothing is consumed at the end of the input
Advance(p) == IF p <= Len(input) THEN p + 1 ELSE p

\* consume_while: the position after the longest run of characters in cond
RECURSIVE ConsumeWhile(_, _)
ConsumeWhile(cond, p) ==
    IF Peek(p) \in cond THEN ConsumeWhile(cond, p + 1) ELSE p

\* the text consume_while returns when it moves the cursor from p to q
Consumed(p, q) == SubSeq(input, p, q - 1)

\* is_valid_start_indent, is_valid_indent
ValidStartIndent == Letters \cup {"_"}
ValidIndent == Letters \cup DigitChars \cup {"_", "-"}

\* parse_identifier: where it leaves the cursor, and what it returns
ParseIdentifierEnd(p) ==
    IF Peek(p) \in ValidStartIndent THEN ConsumeWhile(ValidIndent, p) ELSE p

ParseIdentifier(p) == ToLowercase(Consumed(p, ParseIdentifierEnd(p)))

\* parse_id
ParseId(p) ==
    IF ParseIdentifier(p) = "" THEN None ELSE Some(ParseIdentifier(p))

(***************************************************************************)
(* css_parser.rs: typed values                                             *)
(***************************************************************************)
\* translate_color: keywords to RGBA, anything else to the fallback colour
TranslateColor(value) ==
    CASE value = "red"   -> Color(1, 0, 0, 1)
      [] value = "black" -> Color(0, 0, 0, 1)
      [] OTHER           -> DefaultColor

\* translate_length: the length of the leading run of numeric characters
RECURSIVE NumPrefixLen(_, _)
NumPrefixLen(value, i) ==
    IF i < Len(value) /\ SubSeq(value, i + 1, i + 1) \in DigitChars
    THEN NumPrefixLen(value, i + 1) ELSE i

\* num_string.parse().unwrap_or(0.0) on a string of digits
RECURSIVE ParseDigits(_)
ParseDigits(s) ==
    IF s = "" THEN 0
    ELSE 10 * ParseDigits(SubSeq(s, 1, Len(s) - 1))
         + DigitVal(SubSeq(s, Len(s), Len(s)))

UnitOf(unit) ==
    CASE unit = "em"   -> "Em"
      [] unit = "ex"   -> "Ex"
      [] unit = "ch"   -> "Ch"
      [] unit = "rem"  -> "Rem"
      [] unit = "vh"   -> "Vh"
      [] unit = "vw"   -> "Vw"
      [] unit = "vmin" -> "Vmin"
      [] unit = "vmax" -> "Vmax"
      [] unit = "px"   -> "Px"
      [] unit = "mm"   -> "Mm"
      [] unit = "q"    -> "Q"
      [] unit = "cm"   -> "Cm"
      [] unit = "in"   -> "In"
      [] unit = "pt"   -> "Pt"
      [] unit = "pc"   -> "Pc"
      [] unit = "%"    -> "Pct"
      [] OTHER         -> "Px"

TranslateLength(value) ==
    LET k == NumPrefixLen(value, 0)
    IN  Length(ParseDigits(SubSeq(value, 1, k)),
               UnitOf(SubSeq(value, k + 1, Len(value))))

ColorProperties == {"background-color", "border-color", "color"}
LengthProperties ==
    {"margin-right", "margin-bottom", "margin-left", "margin-top",
     "padding-right", "padding-bottom", "padding-left", "padding-top",
     "border-right-width", "border-bottom-width", "border-left-width",
     "border-top-width", "height", "width"}

\* parse_declarations: the property -> Value kind table
ValueEnum(property, value) ==
    IF property \in ColorProperties THEN TranslateColor(value)
    ELSE IF property \in LengthProperties THEN TranslateLength(value)
    ELSE Other(value)

(***************************************************************************)
(* css_parser.rs: parse_selector                                           *)
(***************************************************************************)
\* the characters that end the token loop of parse_selector
SelectorStop == {",", "{"} \cup Whitespace

\* lines 68-73: the cursor after the leading whitespace and the tag name
TagStart(p) == ConsumeWhile(Whitespace, p)

TagName(p) ==
    IF Peek(TagStart(p)) \in ValidStartIndent
    THEN Some(ParseIdentifier(TagStart(p))) ELSE None

TagEnd(p) ==
    IF Peek(TagStart(p)) \in ValidStartIndent
    THEN ParseIdentifierEnd(TagStart(p)) ELSE TagStart(p)

\* a variant of IdAfterHash in which the last '#' token wins
IdAfterHash_LastWins(sel, multiple, p) == ParseId(p)

\* lines 85-93: the id after a '#' token whose identifier starts at p
IdAfterHash(sel, multiple, p) ==
    IF sel.id # None \/ multiple THEN None ELSE ParseId(p)

MultipleAfterHash(sel, multiple) ==
    IF sel.id # None \/ multiple THEN TRUE ELSE multiple

\* lines 99-103: the classes after a '.' token whose identifier starts at p
ClassesAfterDot(sel, p) ==
    IF ParseIdentifier(p) # "" THEN Append(sel.classes, ParseIdentifier(p))
    ELSE sel.classes

\* line 106: the recovery skip
SkipEnd(p) == ConsumeWhile(AllChars \ {",", "{"}, p)

\* a variant of SelectorOf without the test against the default selector
SelectorOf_Unchecked(sel) == [simple |-> <<sel>>, combinators |-> <<>>]

\* lines 110-114: the Selector parse_selector returns
SelectorOf(sel) ==
    IF sel # DefaultSimpleSelector
    THEN [simple |-> <<sel>>, combinators |-> <<>>]
    ELSE DefaultSelector

\* lines 47-49: parse_selectors keeps a selector that is not the default one
PushSelector(sels, sel) ==
    IF sel # DefaultSelector THEN Append(sels, sel) ELSE sels

\* a variant of SeparatorEnd that leaves the ',' in the stream
SeparatorEnd_KeepComma(p) == ConsumeWhile(Whitespace, p)

\* lines 51-55: whitespace, then one ','
SeparatorEnd(p) ==
    LET q == ConsumeWhile(Whitespace, p)
    IN  IF Peek(q) = "," THEN q + 1 ELSE q

(***************************************************************************)
(* css_parser.rs: parse_declarations                                       *)
(***************************************************************************)
\* lines 141-143: the property runs from PropertyStart to PropertyEnd
PropertyStart(p) == ConsumeWhile(Whitespace, p)
PropertyEnd(p) == ConsumeWhile(AllChars \ {":"}, PropertyStart(p))

\* lines 145-149: the value runs from ValueStart to ValueEnd
ValueStart(p) == ConsumeWhile(Whitespace, Advance(PropertyEnd(p)))
ValueEnd(p) == ConsumeWhile(AllChars \ {";", "\n", "}"}, ValueStart(p))

\* lines 143-172: the declaration read by the iteration that starts at p
DeclarationAt(p) ==
    LET property == ToLowercase(Consumed(PropertyStart(p), PropertyEnd(p)))
        value    == ToLowercase(Consumed(ValueStart(p), ValueEnd(p)))
    IN  Declaration(property, ValueEnum(property, value))

\* a variant of DeclarationStored that keeps ';'-terminated declarations only
DeclarationStored_SemicolonOnly(q) == Peek(q) = ";"

\* lines 174-183: whether the declaration whose value ends at q is pushed
DeclarationStored(q) ==
    IF Peek(q) = ";" THEN TRUE
    ELSE Peek(ConsumeWhile(Whitespace, q)) = "}"

\* lines 174-185: the cursor at the end of the iteration
DeclarationNext(q) ==
    IF Peek(q) = ";" THEN ConsumeWhile(Whitespace, q + 1)
    ELSE ConsumeWhile(Whitespace, q)

(***************************************************************************)
(* css_parser.rs: the parser, one action per loop iteration                *)
(***************************************************************************)
\* parse_stylesheet, line 30: one more rule; parse_selectors begins
ParseStylesheetLoop ==
    /\ pc = "rule"
    /\ Peek(pos) # EOF
    /\ selectors' = <<>>
    /\ mark_rule' = pos
    /\ pc' = "selectors"
    /\ UNCHANGED <<input, pos, sheet, simple_sel, multiple_ids, declarations,
                   mark_sel>>
    /\ UNCHANGED layoutVars

\* parse_stylesheet, line 38: the input is exhausted
ParseStylesheetReturn ==
    /\ pc = "rule"
    /\ Peek(pos) = EOF
    /\ pc' = "done"
    /\ UNCHANGED <<input, pos, sheet, selectors, simple_sel, multiple_ids,
                   declarations, mark_rule, mark_sel>>
    /\ UNCHANGED layoutVars

\* parse_selectors, line 44, and parse_selector up to its token loop
ParseSelectorsLoop ==
    /\ pc = "selectors"
    /\ Peek(pos) \notin {EOF, "{"}
    /\ simple_sel' = [DefaultSimpleSelector EXCEPT !.tag_name = TagName(pos)]
    /\ multiple_ids' = FALSE
    /\ pos' = TagEnd(pos)
    /\ mark_sel' = pos
    /\ pc' = "selector"
    /\ UNCHANGED <<input, sheet, selectors, declarations, mark_rule>>
    /\ UNCHANGED layoutVars

\* parse_selector, lines 82-94: a '#' token
ParseSelectorId ==
    /\ pc = "selector"
    /\ Peek(pos) = "#"
    /\ simple_sel' = [simple_sel EXCEPT
                        !.id = IdAfterHash(simple_sel, multiple_ids, pos + 1)]
    /\ multiple_ids' = MultipleAfterHash(simple_sel, multiple_ids)
    /\ pos' = ParseIdentifierEnd(pos + 1)
    /\ UNCHANGED <<input, sheet, selectors, declarations, pc, mark_rule,
                   mark_sel>>
    /\ UNCHANGED layoutVars

\* parse_selector, lines 96-104: a '.' token
ParseSelectorClass ==
    /\ pc = "selector"
    /\ Peek(pos) = "."
    /\ simple_sel' = [simple_sel EXCEPT
                        !.classes = ClassesAfterDot(simple_sel, pos + 1)]
    /\ pos' = ParseIdentifierEnd(pos + 1)
    /\ UNCHANGED <<input, sheet, selectors, multiple_ids, declarations, pc,
                   mark_rule, mark_sel>>
    /\ UNCHANGED layoutVars

\* parse_selector, line 106: anything else is skipped
ParseSelectorSkip ==
    /\ pc = "selector"
    /\ Peek(pos) \notin SelectorStop \cup {EOF, "#", "."}
    /\ pos' = SkipEnd(pos)
    /\ UNCHANGED <<input, sheet, selectors, simple_sel, multiple_ids,
                   declarations, pc, mark_rule, mark_sel>>
    /\ UNCHANGED layoutVars

\* parse_selector returns (lines 110-114); parse_selectors, lines 47-55
ParseSelectorReturn ==
    /\ pc = "selector"
    /\ Peek(pos) \in SelectorStop \cup {EOF}
    /\ selectors' = PushSelector(selectors, SelectorOf(simple_sel))
    /\ pos' = SeparatorEnd(pos)
    /\ pc' = "selectors"
    /\ UNCHANGED <<input, sheet, simple_sel, multiple_ids, declarations,
                   mark_rule, mark_sel>>
    /\ UNCHANGED layoutVars

\* parse_selectors returns (lines 58-60); parse_declarations begins
ParseSelectorsReturn ==
    /\ pc = "selectors"
    /\ Peek(pos) \in {EOF, "{"}
    /\ pos' = Advance(pos)
    /\ declarations' = <<>>
    /\ pc' = "declarations"
    /\ UNCHANGED <<input, sheet, selectors, simple_sel, multiple_ids,
                   mark_rule, mark_sel>>
    /\ UNCHANGED layoutVars

\* parse_declarations, lines 140-186: one iteration of the declaration loop
ParseDeclarationsLoop ==
    /\ pc = "declarations"
    /\ Peek(pos) \notin {EOF, "}"}
    /\ declarations' = IF DeclarationStored(ValueEnd(pos))
                       THEN Append(declarations, DeclarationAt(pos))
                       ELSE declarations
    /\ pos' = DeclarationNext(ValueEnd(pos))
    /\ UNCHANGED <<input, sheet, selectors, simple_sel, multiple_ids, pc,
                   mark_rule, mark_sel>>
    /\ UNCHANGED layoutVars

\* parse_declarations returns (lines 188-190); parse_stylesheet, lines 33-35
ParseDeclarationsReturn ==
    /\ pc = "declarations"
    /\ Peek(pos) \in {EOF, "}"}
    /\ pos' = Advance(pos)
    /\ sheet' = Append(sheet, Rule(selectors, declarations))
    /\ pc' = "rule"
    /\ UNCHANGED <<input, selectors, simple_sel, multiple_ids, declarations,
                   mark_rule, mark_sel>>
    /\ UNCHANGED layoutVars

NextParse ==
    \/ ParseStylesheetLoop
    \/ ParseStylesheetReturn
    \/ ParseSelectorsLoop
    \/ ParseSelectorId
    \/ ParseSelectorClass
    \/ ParseSelectorSkip
    \/ ParseSelectorReturn
    \/ ParseSelectorsReturn
    \/ ParseDeclarationsLoop
    \/ ParseDeclarationsReturn

(***************************************************************************)
(* The inputs of the parser                                                *)
(***************************************************************************)
\* the characters of the exhaustively enumerated texts
Alphabet == {"a", "1", "#", ".", ",", "{", "}", ":", ";", " ", "\n"}

RECURSIVE Texts(_)
Texts(n) ==
    IF n = 0 THEN {""}
    ELSE Texts(n - 1) \cup {t \o c : t \in Texts(n - 1), c \in Alphabet}

\* longer stylesheets, among them the examples of the specification
Samples ==
    { "div { width: 10px; }",
      ".a.b#x { color: red; }",
      "#a#b { }",
      "#a#b{}",
      "#a#b.c#d.e{}",
      "p#a#b{}",
      "#a#b#c{}",
      "p { color: red }",
      "p{float:left}a{}",
      "P{Width:50%\n}",
      "p{a:b\nc:d;}",
      "p{a:b \n }q{c:d ;e:f}",
      "p{margin-left:20px;margin-right:2em}",
      "a , b{height:abcpx;width:10px5}\n",
      "a{}\nb{}\n",
      "a{ }b{c:d;}" }

Inputs == Texts(MaxLen) \cup Samples

NoBox == [box_type |-> "NoBox"]

InitParse ==
    /\ input \in Inputs
    /\ pos = 1
    /\ sheet = <<>>
    /\ selectors = <<>>
    /\ simple_sel = DefaultSimpleSelector
    /\ multiple_ids = FALSE
    /\ declarations = <<>>
    /\ pc = "rule"
    /\ mark_rule = 1
    /\ mark_sel = 1
    /\ styled = <<>>
    /\ containing = <<>>
    /\ root_box = NoBox
    /\ lpc = "idle"

SpecParse == InitParse /\ [][NextParse]_vars

(***************************************************************************)
(* layout.rs: Dimensions, Rectangle, EdgeSizes                             *)
(***************************************************************************)
Rectangle(x, y, width, height) ==
    [x |-> x, y |-> y, width |-> width, height |-> height]

DefaultRectangle == Rectangle(0, 0, 0, 0)
DefaultEdgeSizes == [top |-> 0, bottom |-> 0, left |-> 0, right |-> 0]

DefaultDimensions ==
    [content |-> DefaultRectangle, padding |-> DefaultEdgeSizes,
     border |-> DefaultEdgeSizes, margin |-> DefaultEdgeSizes,
     current |-> DefaultRectangle]

\* Rectangle::expanded
Expanded(r, e) ==
    Rectangle(r.x - e.left, r.y - e.top,
              r.width + e.left + e.right, r.height + e.top + e.bottom)

\* Dimensions::padding_box, border_box, margin_box
PaddingBox(d) == Expanded(d.content, d.padding)
BorderBox(d) == Expanded(PaddingBox(d), d.border)
MarginBox(d) == Expanded(BorderBox(d), d.margin)

(***************************************************************************)
(* The styled tree: styled[n] is node n, styled[n].parent its parent (0    *)
(* for the root, node 1), and the children of a node are the nodes naming  *)
(* it, in increasing order.  styled[n].specified maps the properties the   *)
(* node declares to their Value.                                           *)
(***************************************************************************)
\* StyledNode::value
SpecifiedValue(n, prop) ==
    IF prop \in DOMAIN styled[n].specified
    THEN Some(styled[n].specified[prop]) ELSE None

\* StyledNode::num_or
NumOr(n, prop, default) ==
    IF SpecifiedValue(n, prop) # None
       /\ SpecifiedValue(n, prop)[1].kind = "Length"
    THEN SpecifiedValue(n, prop)[1].n ELSE default

\* StyledNode::get_display
GetDisplay(n) == styled[n].display

\* StyledNode::children, in source order
RECURSIVE Ascending(_)
Ascending(S) ==
    IF S = {} THEN <<>>
    ELSE LET m == CHOOSE x \in S : \A y \in S : x <= y
         IN  <<m>> \o Ascending(S \ {m})

ChildrenOf(n) == Ascending({c \in DOMAIN styled : styled[c].parent = n})

(***************************************************************************)
(* layout.rs: build_layout_tree                                            *)
(***************************************************************************)
LayoutBox(box_type, n, children) ==
    [dimensions |-> DefaultDimensions, box_type |-> box_type,
     styled_node |-> n, children |-> children]

\* lines 361-366
BoxTypeOf(display) ==
    CASE display = "Block"       -> "Block"
      [] display = "Inline"      -> "Inline"
      [] display = "InlineBlock" -> "InlineBlock"
      [] display = "None"        -> "Anonymous"

\* a variant of KeptChildren that keeps every child
KeptChildren_All(n) == ChildrenOf(n)

\* lines 370-377: the children that get a box
KeptChildren(n) == SelectSeq(ChildrenOf(n), LAMBDA c : GetDisplay(c) # "None")

RECURSIVE BuildLayoutTree(_)
BuildLayoutTree(n) ==
    LayoutBox(BoxTypeOf(GetDisplay(n)), n,
              [k \in 1..Len(KeptChildren(n)) |->
                  BuildLayoutTree(KeptChildren(n)[k])])

(***************************************************************************)
(* layout.rs: widths                                                       *)
(***************************************************************************)
\* a variant of AbsNumPanics under which no unit is fatal
AbsNumPanics_Never(n, prop) == FALSE

\* get_abs_num, line 342: the unit is neither Px nor Pct
AbsNumPanics(n, prop) ==
    /\ SpecifiedValue(n, prop) # None
    /\ SpecifiedValue(n, prop)[1].kind = "Length"
    /\ SpecifiedValue(n, prop)[1].unit \notin {"Px", "Pct"}

\* get_abs_num when it does not panic; l * W / 100.0 is exact on the
\* percentages of the model
GetAbsNum(n, b_box, prop) ==
    LET v == SpecifiedValue(n, prop)
    IN  IF v = None \/ v[1].kind # "Length" THEN None
        ELSE IF v[1].unit = "Px" THEN Some(v[1].n)
        ELSE Some((v[1].n * b_box.content.width) \div 100)

UnwrapOr(opt, default) == IF opt = None THEN default ELSE opt[1]

\* s.parse().unwrap_or(0.0) on the raw text of a Value::Other
ParseOrZero(text) ==
    IF text # "" /\ CharsOf(text) \subseteq DigitChars
    THEN ParseDigits(text) ELSE 0

\* lines 87-101: the declared margin as calculate_width reads it
MarginNum(n, prop) ==
    LET m == SpecifiedValue(n, prop)
    IN  IF m = None THEN 0
        ELSE IF m[1].kind = "Other" THEN ParseOrZero(m[1].s)
        ELSE 0

\* a variant of Half that gives each margin the whole underflow
Half_Whole(x) == x

\* underflow / 2.0; the underflow is even wherever the model halves it
Half(x) == x \div 2

\* calculate_width
CalculateWidth(d, n, b_box) ==
    LET width == UnwrapOr(GetAbsNum(n, b_box, "width"), 0)
        margin_left == SpecifiedValue(n, "margin-left")
        margin_right == SpecifiedValue(n, "margin-right")
        margin_left_num == MarginNum(n, "margin-left")
        margin_right_num == MarginNum(n, "margin-right")
        border_left == NumOr(n, "border-left-width", 0)
        border_right == NumOr(n, "border-left-right", 0)
        padding_left == NumOr(n, "padding-left", 0)
        padding_right == NumOr(n, "padding-right", 0)
        total == width + margin_left_num + margin_right_num + border_left
                 + border_right + padding_left + padding_right
        underflow == b_box.content.width - total
        d1 == [d EXCEPT !.border.left = border_left,
                        !.border.right = border_right,
                        !.padding.left = padding_left,
                        !.padding.right = padding_right]
    IN  CASE width = 0 ->
               IF underflow >= 0
               THEN [d1 EXCEPT !.content.width = underflow,
                               !.margin.right = margin_right_num,
                               !.margin.left = margin_left_num]
               ELSE [d1 EXCEPT !.margin.right = margin_right_num + underflow,
                               !.content.width = width,
                               !.margin.left = margin_left_num]
          [] width # 0 /\ margin_left = None /\ margin_right # None ->
               [d1 EXCEPT !.margin.left = underflow,
                          !.margin.right = margin_right_num,
                          !.content.width = width]
          [] width # 0 /\ margin_left # None /\ margin_right = None ->
               [d1 EXCEPT !.margin.right = underflow,
                          !.margin.left = margin_left_num,
                          !.content.width = width]
          [] width # 0 /\ margin_left = None /\ margin_right = None ->
               [d1 EXCEPT !.margin.left = Half(underflow),
                          !.margin.right = Half(underflow),
                          !.content.width = width]
          [] OTHER ->
               [d1 EXCEPT !.margin.right = margin_right_num + underflow,
                          !.margin.left = margin_left_num,
                          !.content.width = width]

\* calculate_inline_width
CalculateInlineWidth(d, n, b_box) ==
    [d EXCEPT !.content.width = UnwrapOr(GetAbsNum(n, b_box, "width"), 0),
              !.margin.left = NumOr(n, "margin-left", 0),
              !.margin.right = NumOr(n, "margin-right", 0),
              !.padding.left = NumOr(n, "padding-left", 0),
              !.padding.right = NumOr(n, "padding-right", 0),
              !.border.left = NumOr(n, "border-left-width", 0),
              !.border.right = NumOr(n, "border-right-width", 0)]

(***************************************************************************)
(* layout.rs: positions and heights                                        *)
(***************************************************************************)
\* lines 151-156 and 241-246: the vertical edges
VerticalEdges(d, n) ==
    [d EXCEPT !.margin.top = NumOr(n, "margin-top", 0),
              !.margin.bottom = NumOr(n, "margin-bottom", 0),
              !.border.top = NumOr(n, "border-top-width", 0),
              !.border.bottom = NumOr(n, "border-bottom-width", 0),
              !.padding.top = NumOr(n, "padding-top", 0),
              !.padding.bottom = NumOr(n, "padding-bottom", 0)]

\* calculate_pos
CalculatePos(d, n, b_box) ==
    LET e == VerticalEdges(d, n)
    IN  [e EXCEPT
           !.content.x = b_box.content.x + e.margin.left + e.border.left
                         + e.padding.left,
           !.content.y = b_box.content.height + b_box.content.y
                         + e.margin.top + e.border.top + e.padding.top]

\* calculate_inline_pos
CalculateInlinePos(d, n, b_box) ==
    LET e == VerticalEdges(d, n)
    IN  [e EXCEPT
           !.content.x = b_box.content.x + b_box.current.x + e.margin.left
                         + e.border.left + e.padding.left,
           !.content.y = b_box.content.y + b_box.current.y + e.margin.top
                         + e.border.top + e.padding.top]

\* calculate_height
CalculateHeight(d, n) ==
    LET h == SpecifiedValue(n, "height")
    IN  IF h # None /\ h[1].kind = "Length"
        THEN [d EXCEPT !.content.height = h[1].n] ELSE d

(***************************************************************************)
(* layout.rs: layout, layout_block, layout_inline_block, layout_children   *)
(***************************************************************************)
\* what is left of a pass that hit panic!("unimplemented css unit length")
Panic == [box_type |-> "Panic"]

Panicked(box) == box.box_type = "Panic"

\* lines 179-180 and 201-203: the run is flushed
FlushRun(d, max_child_height) ==
    [d EXCEPT !.content.height = @ + max_child_height, !.current.x = 0]

\* line 196: a block child adds its margin-box height
StackBlock(d, child) ==
    [d EXCEPT !.content.height = @ + MarginBox(child.dimensions).height]

\* lines 198 and 207: an inline-block child advances the cursor
AdvanceCursor(d, child) ==
    [d EXCEPT !.current.x = @ + MarginBox(child.dimensions).width]

RECURSIVE Layout(_, _)
RECURSIVE LayoutChildrenFrom(_, _, _, _)

\* layout_children from child i on: box holds the dimensions d and the
\* children laid out so far, prev is prevBoxType
LayoutChildrenFrom(box, i, max_child_height, prev) ==
    IF i > Len(box.children) THEN box
    ELSE
      LET child == box.children[i]
          d1 == IF prev = "InlineBlock" /\ child.box_type = "Block"
                THEN FlushRun(box.dimensions, max_child_height)
                ELSE box.dimensions
          c1 == Layout(child, d1)
      IN  IF Panicked(c1) THEN Panic
          ELSE
            LET new_height == MarginBox(c1.dimensions).height
                max1 == IF new_height > max_child_height
                        THEN new_height ELSE max_child_height
                d2 == AdvanceCursor(d1, c1)
                d3 == FlushRun(d2, max1)
                c2 == Layout(c1, d3)
                after ==
                    CASE child.box_type = "Block" ->
                           [d |-> StackBlock(d1, c1), c |-> c1]
                      [] child.box_type = "InlineBlock"
                           /\ d2.current.x > d2.content.width ->
                           [d |-> AdvanceCursor(d3, c2), c |-> c2]
                      [] child.box_type = "InlineBlock"
                           /\ ~(d2.current.x > d2.content.width) ->
                           [d |-> d2, c |-> c1]
                      [] OTHER -> [d |-> d1, c |-> c1]
            IN  LayoutChildrenFrom(
                    [box EXCEPT !.dimensions = after.d,
                                !.children[i] = after.c],
                    i + 1, max1, child.box_type)

\* layout_children
LayoutChildren(box) == LayoutChildrenFrom(box, 1, 0, "Block")

\* layout_block
LayoutBlock(box, b_box) ==
    IF AbsNumPanics(box.styled_node, "width") THEN Panic
    ELSE
      LET n == box.styled_node
          placed == CalculatePos(CalculateWidth(box.dimensions, n, b_box),
                                 n, b_box)
          filled == LayoutChildren([box EXCEPT !.dimensions = placed])
      IN  IF Panicked(filled) THEN Panic
          ELSE [filled EXCEPT
                   !.dimensions = CalculateHeight(filled.dimensions, n)]

\* layout_inline_block
LayoutInlineBlock(box, b_box) ==
    IF AbsNumPanics(box.styled_node, "width") THEN Panic
    ELSE
      LET n == box.styled_node
          placed == CalculateInlinePos(
                        CalculateInlineWidth(box.dimensions, n, b_box),
                        n, b_box)
          filled == LayoutChildren([box EXCEPT !.dimensions = placed])
      IN  IF Panicked(filled) THEN Panic
          ELSE [filled EXCEPT
                   !.dimensions = CalculateHeight(filled.dimensions, n)]

\* layout
Layout(box, b_box) ==
    CASE box.box_type = "Block"       -> LayoutBlock(box, b_box)
      [] box.box_type = "Inline"      -> LayoutBlock(box, b_box)
      [] box.box_type = "InlineBlock" -> LayoutInlineBlock(box, b_box)
      [] box.box_type = "Anonymous"   -> box

(***************************************************************************)
(* layout.rs: layout_tree                                                  *)
(***************************************************************************)
\* lines 350-353: the height of the containing block is reset and the box
\* tree is built
LayoutTreeBuild ==
    /\ lpc = "start"
    /\ containing' = [containing EXCEPT !.content.height = 0]
    /\ root_box' = BuildLayoutTree(1)
    /\ lpc' = "built"
    /\ UNCHANGED styled
    /\ UNCHANGED parserVars

\* lines 354-356: the root is laid out and the tree returned
LayoutTreeReturn ==
    /\ lpc = "built"
    /\ ~Panicked(Layout(root_box, containing))
    /\ root_box' = Layout(root_box, containing)
    /\ lpc' = "done"
    /\ UNCHANGED <<styled, containing>>
    /\ UNCHANGED parserVars

\* line 354, through get_abs_num line 342: the pass panics, nothing is
\* returned
LayoutTreePanic ==
    /\ lpc = "built"
    /\ Panicked(Layout(root_box, containing))
    /\ root_box' = Panic
    /\ lpc' = "panicked"
    /\ UNCHANGED <<styled, containing>>
    /\ UNCHANGED parserVars

NextLayout ==
    \/ LayoutTreeBuild
    \/ LayoutTreeReturn
    \/ LayoutTreePanic

(***************************************************************************)
(* The inputs of the layout                                                *)
(***************************************************************************)
\* a node's declarations, typed as parse_declarations types them
Declared(pairs) ==
    [prop \in {pr[1] : pr \in pairs} |->
        ValueEnum(prop, (CHOOSE pr \in pairs : pr[1] = prop)[2])]

\* a resolved style: the display and the declared values
Style(display, pairs) == [display |-> display, specified |-> Declared(pairs)]

StyledNode(parent, style) ==
    [parent |-> parent, display |-> style.display,
     specified |-> style.specified]

\* the node styles of the enumerated trees: display and declarations
Palette ==
    { Style("Block", {}),
      Style("Block", {<<"height", "4px">>, <<"margin-top", "2px">>}),
      Style("InlineBlock", {<<"width", "6px">>}),
      Style("InlineBlock", {<<"width", "6px">>, <<"height", "2em">>,
                            <<"margin-bottom", "1em">>}),
      Style("Inline", {<<"height", "3px">>}),
      Style("None", {}),
      Style("Block", {<<"width", "2em">>}) }

\* node k is on the path from node i up to the root
RECURSIVE OnPath(_, _, _)
OnPath(parents, i, k) ==
    IF i = 0 THEN FALSE
    ELSE IF i = k THEN TRUE
    ELSE OnPath(parents, parents[i], k)

\* the trees of n nodes, numbered in document order
Shapes(n) ==
    {parents \in [1..n -> 0..(n - 1)] :
        /\ parents[1] = 0
        /\ \A i \in 2..n : parents[i] >= 1 /\ OnPath(parents, i - 1, parents[i])}

StyledTrees ==
    UNION {
        {[i \in 1..n |-> StyledNode(parents[i], styles[i])] :
            parents \in Shapes(n), styles \in [1..n -> Palette]} :
        n \in 1..MaxNodes}

ContainingBlocks ==
    {[DefaultDimensions EXCEPT !.content = Rectangle(1, 2, 10, 5)]}

ParserIdle ==
    /\ input = ""
    /\ pos = 1
    /\ sheet = <<>>
    /\ selectors = <<>>
    /\ simple_sel = DefaultSimpleSelector
    /\ multiple_ids = FALSE
    /\ declarations = <<>>
    /\ pc = "idle"
    /\ mark_rule = 1
    /\ mark_sel = 1

InitLayout ==
    /\ styled \in StyledTrees
    /\ containing \in ContainingBlocks
    /\ root_box = NoBox
    /\ lpc = "start"
    /\ ParserIdle

SpecLayout == InitLayout /\ [][NextLayout]_vars

\* one declaration of prop, or none
Optional(prop, texts) == {{}} \cup {{<<prop, t>>} : t \in texts}

\* the declarations of the single boxes whose width is resolved
BoxStyles ==
    {Style(display, w \cup ml \cup mr \cup bl \cup br \cup pl \cup pr) :
        display \in {"Block", "Inline", "InlineBlock"},
        w \in Optional("width", {"0px", "6px", "12px", "100%", "2em"}),
        ml \in Optional("margin-left", {"2px", "4px"}),
        mr \in Optional("margin-right", {"2px", "6px"}),
        bl \in Optional("border-left-width", {"2px"}),
        br \in Optional("border-right-width", {"4px"}),
        pl \in Optional("padding-left", {"2px"}),
        pr \in Optional("padding-right", {"2px"})}

InitWidth ==
    /\ styled \in {<<StyledNode(0, style)>> : style \in BoxStyles}
    /\ containing \in
           {[DefaultDimensions EXCEPT !.content = Rectangle(1, 2, w, 5)] :
               w \in {10, 20}}
    /\ root_box = NoBox
    /\ lpc = "start"
    /\ ParserIdle

SpecWidth == InitWidth /\ [][NextLayout]_vars

(***************************************************************************)
(* Properties of the parser                                                *)
(***************************************************************************)
ParseDone == pc = "done"

\* one step of the parser never moves the cursor back, and every iteration
\* of the token loop, the selectors loop, the declaration loop and the rule
\* loop leaves it further than it found it
LoopsConsume ==
    /\ pos' >= pos
    /\ (pc = "selector" /\ pc' = "selector") => pos' > pos
    /\ (pc = "selector" /\ pc' = "selectors") => pos' > mark_sel
    /\ (pc = "declarations" /\ pc' = "declarations") => pos' > pos
    /\ (pc = "declarations" /\ pc' = "rule") => pos' > mark_rule

\* at the head of the token loop and of the declaration loop the iteration
\* about to run leaves the cursor further than it is: no iteration spins
IterationsAdvance ==
    /\ (pc = "selector" /\ Peek(pos) \in {"#", "."}) =>
           ParseIdentifierEnd(pos + 1) > pos
    /\ (pc = "selector" /\ Peek(pos) \notin SelectorStop \cup {EOF, "#", "."}) =>
           SkipEnd(pos) > pos
    /\ (pc = "declarations" /\ Peek(pos) \notin {EOF, "}"}) =>
           DeclarationNext(ValueEnd(pos)) > pos
    /\ pos <= Len(input) + 1

\* C1: on every input, malformed or not, parse_stylesheet terminates and
\* returns a Stylesheet: every iteration of the rule loop, of the selector
\* loops and of the declaration loop consumes at least one character of the
\* finite input or ends its loop, and the cursor never passes the end.
C1_ParseTerminates == []IterationsAdvance /\ [][LoopsConsume]_vars

\* C1 witness: a text of stray '#', '.', ',' and ';' with no braces and no
\* ':' has been parsed to the end.
C1_Witness ==
    /\ ParseDone
    /\ input = "#.,;"
    /\ sheet = <<Rule(<<>>, <<>>)>>

Range(f) == {f[x] : x \in DOMAIN f}

SelectorsOfSheet == UNION {Range(rule.selectors) : rule \in Range(sheet)}

NonEmptySimple(ss) == ss.tag_name # None \/ ss.id # None \/ ss.classes # <<>>

\* C2: no Selector stored in a Rule has an empty `simple` sequence and no
\* SimpleSelector stored in a Selector lacks tag name, id and classes all at
\* once.
C2_NoEmptySelector ==
    \A rule \in Range(sheet) \cup {Rule(selectors, <<>>)} :
        \A j \in 1..Len(rule.selectors) :
            LET sel == rule.selectors[j]
            IN  /\ sel.simple # <<>>
                /\ \A k \in 1..Len(sel.simple) : NonEmptySimple(sel.simple[k])

\* C2 witness: of the selector list "a,#" the selector "a" is stored and the
\* empty one read from "#" is not.
C2_Witness ==
    /\ ParseDone
    /\ input = "a,#{"
    /\ Len(sheet) = 1
    /\ Len(sheet[1].selectors) = 1

\* C3 as claimed: "#a#b { }" yields a rule whose selector holds a simple
\* selector with id absent.
C3_Original ==
    (ParseDone /\ input = "#a#b { }") =>
        \E sel \in SelectorsOfSheet :
            \E k \in 1..Len(sel.simple) : sel.simple[k].id = None

\* a '#' token met when an id was captured before it clears the id, and no
\* later '#' token of the selector is stored either
SecondIdClears ==
    (pc = "selector" /\ Peek(pos) = "#"
        /\ (simple_sel.id # None \/ multiple_ids)) =>
            /\ simple_sel'.id = None
            /\ multiple_ids'
            /\ simple_sel'.classes = simple_sel.classes
            /\ simple_sel'.tag_name = simple_sel.tag_name

\* a '.' token with a name is collected whatever happened to the id
ClassCollected ==
    (pc = "selector" /\ Peek(pos) = "." /\ ParseIdentifier(pos + 1) # "") =>
        /\ simple_sel'.classes =
               Append(simple_sel.classes, ParseIdentifier(pos + 1))
        /\ simple_sel'.id = simple_sel.id

\* C3, amended: "#a#b { }" yields one rule with no selector at all, since the
\* simple selector whose id was invalidated is empty and is dropped; with a
\* tag or a class beside the two ids the selector is stored with id absent.
\* A '#' token that follows a captured id clears it and is not stored, and
\* '.class' tokens after it are still collected.
C3_SecondIdInvalidates ==
    /\ []((ParseDone /\ input \in {"#a#b { }", "#a#b{}", "#a#b#c{}"}) =>
            sheet = <<Rule(<<>>, <<>>)>>)
    /\ []((ParseDone /\ input = "p#a#b{}") =>
            sheet = <<Rule(<<SelectorOf([tag_name |-> Some("p"), id |-> None,
                                         classes |-> <<>>])>>, <<>>)>>)
    /\ [][SecondIdClears /\ ClassCollected]_vars

\* C3 witness: in "#a#b.c#d.e{}" the ids are dropped and both classes kept.
C3_Witness ==
    /\ ParseDone
    /\ input = "#a#b.c#d.e{}"
    /\ Len(sheet) = 1
    /\ Len(sheet[1].selectors) = 1
    /\ sheet[1].selectors[1].simple =
           <<[tag_name |-> None, id |-> None, classes |-> <<"c", "e">>]>>

\* one iteration of the declaration loop stores its declaration exactly when
\* the value is followed at once by ';' or, after whitespace, by '}', and in
\* the second case stops in front of that '}'
StoredWhenTerminated ==
    (pc = "declarations" /\ pc' = "declarations") =>
        LET q == ValueEnd(pos)
            semicolon == Peek(q) = ";"
            closing == Peek(ConsumeWhile(Whitespace, q)) = "}"
        IN  /\ (declarations' # declarations) <=> (semicolon \/ closing)
            /\ (semicolon \/ closing) =>
                   declarations' = Append(declarations, DeclarationAt(pos))
            /\ (closing /\ ~semicolon) =>
                   (pos' = ConsumeWhile(Whitespace, q) /\ Peek(pos') = "}")

\* the '}' in front of the cursor ends the declaration loop: the rule is
\* pushed and the next rule starts right after it
ClosingEndsRule ==
    (pc = "declarations" /\ Peek(pos) = "}") =>
        /\ pc' = "rule"
        /\ pos' = pos + 1
        /\ sheet' = Append(sheet, Rule(selectors, declarations))

\* C4: a declaration is stored exactly when its value is immediately
\* followed by ';' or, after optional whitespace, by '}'; that '}' is left
\* for the declaration loop, which it ends, so the last declaration needs no
\* ';' and the next rule starts right after the '}'; a declaration followed
\* by anything else (a newline and another property) is not stored.
C4_DeclarationStored ==
    /\ [][StoredWhenTerminated /\ ClosingEndsRule]_vars
    /\ []((ParseDone /\ input = "p{float:left}a{}") =>
            /\ Len(sheet) = 2
            /\ sheet[1].declarations =
                   <<Declaration("float", Other("left"))>>
            /\ sheet[2] = Rule(<<SelectorOf([tag_name |-> Some("a"),
                                id |-> None, classes |-> <<>>])>>, <<>>))
    /\ []((ParseDone /\ input = "p{a:b\nc:d;}") =>
            /\ Len(sheet) = 1
            /\ sheet[1].declarations = <<Declaration("c", Other("d"))>>)

\* C4 witness: "p{a:b \n }q{c:d ;e:f}" has been parsed: a declaration closed
\* by whitespace and '}', one closed by ';' and a last one closed by '}'.
C4_Witness ==
    /\ ParseDone
    /\ input = "p{a:b \n }q{c:d ;e:f}"
    /\ Len(sheet) = 2
    /\ Len(sheet[1].declarations) = 1
    /\ Len(sheet[2].declarations) = 2

(***************************************************************************)
(* Properties of the layout                                                *)
(***************************************************************************)
LayoutDone == lpc = "done"

RECURSIVE BoxesOf(_)
\* the boxes of a box tree
BoxesOf(box) == {box} \cup UNION {BoxesOf(c) : c \in Range(box.children)}

RECURSIVE SumOf(_)
SumOf(heights) ==
    IF heights = <<>> THEN 0 ELSE Head(heights) + SumOf(Tail(heights))

\* the margin-box heights of the first k children of a box
ChildHeights(box, k) ==
    [j \in 1..k |-> MarginBox(box.children[j].dimensions).height]

DeclaresLength(n, prop) ==
    /\ prop \in DOMAIN styled[n].specified
    /\ styled[n].specified[prop].kind = "Length"

\* C5: a block box with a non-zero width and both horizontal margins
\* declared as lengths, over-constrained in a containing block of width W,
\* gets margin.right = declared margin-right + (W - total), margin.left =
\* the declared margin-left and content.width = the declared width.
C5_OverConstrained ==
    (/\ LayoutDone
     /\ root_box.box_type = "Block"
     /\ DeclaresLength(1, "width")
     /\ DeclaresLength(1, "margin-left")
     /\ DeclaresLength(1, "margin-right")) =>
        LET d == root_box.dimensions
            W == containing.content.width
            width == UnwrapOr(GetAbsNum(1, containing, "width"), 0)
            left == styled[1].specified["margin-left"].n
            right == styled[1].specified["margin-right"].n
            total == width + left + right + d.border.left + d.border.right
                     + d.padding.left + d.padding.right
        IN  (width # 0 /\ total > W) =>
                /\ d.margin.right = right + (W - total)
                /\ d.margin.left = left
                /\ d.content.width = width

\* C6: two inline-block children of margin-box width 0.6 * W and of positive
\* height in a parent of content width W: the second is placed below the
\* first, and the parent's content height is the sum of their margin-box
\* heights.
C6_InlineBlockWrap ==
    (/\ LayoutDone
     /\ root_box.box_type = "Block"
     /\ "height" \notin DOMAIN styled[1].specified
     /\ Len(root_box.children) = 2
     /\ \A k \in 1..2 :
           /\ root_box.children[k].box_type = "InlineBlock"
           /\ MarginBox(root_box.children[k].dimensions).height > 0
           /\ 10 * MarginBox(root_box.children[k].dimensions).width
                  = 6 * root_box.dimensions.content.width) =>
        /\ root_box.children[2].dimensions.content.y
               > root_box.children[1].dimensions.content.y
        /\ root_box.dimensions.content.height = SumOf(ChildHeights(root_box, 2))

\* C7: in a laid-out box with no explicit height whose children are all
\* block boxes, the content height is the sum of the children's margin-box
\* heights and the margin box of child k starts at content.y plus the
\* heights of the children before it.
C7_BlockStacking ==
    LayoutDone =>
        \A box \in BoxesOf(root_box) :
            (/\ box.box_type \in {"Block", "Inline", "InlineBlock"}
             /\ "height" \notin DOMAIN styled[box.styled_node].specified
             /\ \A k \in 1..Len(box.children) :
                   box.children[k].box_type = "Block") =>
                /\ box.dimensions.content.height
                       = SumOf(ChildHeights(box, Len(box.children)))
                /\ \A k \in 1..Len(box.children) :
                       MarginBox(box.children[k].dimensions).y
                           = box.dimensions.content.y
                             + SumOf(ChildHeights(box, k - 1))

\* the number of boxes a box tree holds for node n
RECURSIVE BoxCount(_, _)
BoxCount(box, n) ==
    (IF box.styled_node = n THEN 1 ELSE 0)
    + SumOf([k \in 1..Len(box.children) |-> BoxCount(box.children[k], n)])

\* neither node n nor a node above it is display:none
RECURSIVE Displayed(_)
Displayed(n) ==
    IF n = 0 THEN TRUE
    ELSE GetDisplay(n) # "None" /\ Displayed(styled[n].parent)

\* node n is not display:none and neither is a node between it and the root
RECURSIVE Kept(_)
Kept(n) ==
    IF n = 1 THEN TRUE
    ELSE GetDisplay(n) # "None" /\ Kept(styled[n].parent)

TreeBuilt == lpc \in {"built", "done"}

LayoutEnded == lpc \in {"done", "panicked"}

UnsupportedUnit(n, prop) ==
    /\ DeclaresLength(n, prop)
    /\ styled[n].specified[prop].unit \notin {"Px", "Pct"}

\* C9: layout_tree aborts, returning no tree, exactly when a box that is
\* laid out declares a width whose unit is neither px nor percent; such a
\* unit on height or on another property never aborts it, and otherwise the
\* complete tree is returned.
C9_PanicOnWidthUnit ==
    LayoutEnded =>
        /\ (lpc = "panicked") <=>
               \E n \in DOMAIN styled : Displayed(n) /\ UnsupportedUnit(n, "width")
        /\ (lpc = "panicked") => root_box = Panic
        /\ (lpc = "done") =>
               \A n \in DOMAIN styled : Kept(n) => BoxCount(root_box, n) = 1

\* C9 witness: a pass is aborted by a width in em on a box below the root,
\* in a tree where another laid-out box declares its height in em.
C9_Witness ==
    /\ lpc = "panicked"
    /\ root_box = Panic
    /\ ~UnsupportedUnit(1, "width")
    /\ \E n \in DOMAIN styled :
          n # 1 /\ Displayed(n) /\ UnsupportedUnit(n, "width")
    /\ \E n \in DOMAIN styled :
          Displayed(n) /\ UnsupportedUnit(n, "height")

\* C10: a flush adds the tallest margin-box height of the current
\* horizontal run only: under a parent whose children are a block, an
\* inline-block and a block, the margin box of the third child starts at
\* content.y plus the heights of the first two.
C10_FlushCountsRunOnly ==
    (/\ LayoutDone
     /\ root_box.box_type = "Block"
     /\ Len(root_box.children) = 3
     /\ root_box.children[1].box_type = "Block"
     /\ root_box.children[2].box_type = "InlineBlock"
     /\ root_box.children[3].box_type = "Block") =>
        MarginBox(root_box.children[3].dimensions).y
            = root_box.dimensions.content.y + SumOf(ChildHeights(root_box, 2))

\* the box of the root is laid out by layout_block
BlockLaidOut == LayoutDone /\ root_box.box_type \in {"Block", "Inline"}

\* C11: calculate_width sets border.right to the node's border-right-width
\* (0 when absent), as border.left is set from border-left-width and as
\* calculate_inline_width sets border.right, and counts it in the total that
\* is subtracted from the containing width.
C11_BorderRight ==
    BlockLaidOut =>
        LET d == root_box.dimensions
            W == containing.content.width
            right == NumOr(1, "border-right-width", 0)
            edges == d.margin.left + d.margin.right + d.border.left + right
                     + d.padding.left + d.padding.right
        IN  /\ d.border.left = NumOr(1, "border-left-width", 0)
            /\ d.border.right = right
            /\ d.border.right
                   = CalculateInlineWidth(DefaultDimensions, 1,
                                          containing).border.right
            /\ ("width" \notin DOMAIN styled[1].specified /\ W >= edges) =>
                   d.content.width = W - edges

\* C12: after calculate_width the margin box of a block or inline box is as
\* wide as the content of its containing block, in every branch of the
\* resolution.
C12_MarginBoxFills ==
    BlockLaidOut =>
        MarginBox(root_box.dimensions).width = containing.content.width

\* C12 witness: a box wider than its containing block, with no margin
\* declared, ends with negative margins.
C12_Witness ==
    /\ BlockLaidOut
    /\ root_box.dimensions.content.width > containing.content.width
    /\ "margin-left" \notin DOMAIN styled[1].specified
    /\ "margin-right" \notin DOMAIN styled[1].specified
    /\ root_box.dimensions.margin.left < 0
    /\ root_box.dimensions.margin.right < 0

\* a box and its descendants, placed relative to the origin (ox, oy)
RECURSIVE Relative(_, _, _)
Relative(box, ox, oy) ==
    [node |-> box.styled_node,
     dx |-> box.dimensions.content.x - ox,
     dy |-> box.dimensions.content.y - oy,
     width |-> box.dimensions.content.width,
     height |-> box.dimensions.content.height,
     children |-> [k \in 1..Len(box.children) |->
                      Relative(box.children[k], ox, oy)]]

\* a box and its descendants, relative to the box's own content origin
Shape(box) ==
    Relative(box, box.dimensions.content.x, box.dimensions.content.y)

\* the second child of the root is an inline-block that follows an
\* inline-block and does not fit on its line: layout_children lays it out,
\* wraps and lays it out again
SecondChildWrapped ==
    /\ LayoutDone
    /\ root_box.box_type = "Block"
    /\ Len(root_box.children) >= 2
    /\ root_box.children[1].box_type = "InlineBlock"
    /\ root_box.children[2].box_type = "InlineBlock"
    /\ MarginBox(root_box.children[1].dimensions).width
           + MarginBox(root_box.children[2].dimensions).width
         > root_box.dimensions.content.width

\* C13: an inline-block child with no explicit height that is laid out again
\* after a wrap ends with the content height, and its descendants with the
\* positions relative to its content origin, that one layout of the child
\* at the start of the new line produces.
C13_RelayoutIdempotent ==
    (/\ SecondChildWrapped
     /\ "height" \notin
            DOMAIN styled[root_box.children[2].styled_node].specified) =>
        LET child == root_box.children[2]
            once == Layout(BuildLayoutTree(child.styled_node),
                           [root_box.dimensions EXCEPT !.current.x = 0])
        IN  Shape(child) = Shape(once)

\* the whitespace between and around rules: up to two blanks
Blanks ==
    {""} \cup {a \o b : a \in {" ", "\n"}, b \in {"", " ", "\n"}}

\* grammatical rules: selector-list '{' declaration-list '}'
RuleTexts == {"a{}", "b{}", "a{a:1;}"}

\* the inputs made of n grammatical rules with whitespace before, between
\* and after them
RECURSIVE RulesAndBlanks(_)
RulesAndBlanks(n) ==
    IF n = 0 THEN Blanks
    ELSE {t \o r \o w : t \in RulesAndBlanks(n - 1), r \in RuleTexts,
                        w \in Blanks}

\* C14: an input made of n grammatical rules with whitespace before, between
\* and after them parses to exactly n rules, none of them a rule with no
\* selectors and no declarations.
C14_WhitespaceAddsNoRule ==
    ParseDone =>
        \A n \in 0..2 :
            input \in RulesAndBlanks(n) =>
                /\ Len(sheet) = n
                /\ \A i \in 1..Len(sheet) : sheet[i] # Rule(<<>>, <<>>)

====
